---- MODULE Spec2Model ----
(***************************************************************************)
(* Model of the two batch scripts of the repository:                       *)
(*   1_patient_data_cleaner.py   clean_patient_data  (pandas pipeline)     *)
(*   2_med_dosage_calculator.py  calculate_dosage / calculate_all_dosages  *)
(*                                                                         *)
(* Python dicts are functions from a set of keys to values.  Dosages are   *)
(* kept in thousandths of a milligram, so that the per-kilogram factors    *)
(* of DOSAGE_FACTORS (0.001 .. 10.0 mg/kg) are whole numbers.              *)
(***************************************************************************)
EXTENDS Integers, Sequences, FiniteSets, TLC

VARIABLES
    pc,                     \* position of the running script
    patients,               \* the loaded input list
    idx,                    \* calculator: number of list items the for loop has consumed
    patients_with_dosages,  \* calculator: result list
    total_medication,       \* calculator: running total
    df,                     \* cleaner: the DataFrame, [cols, rows]
    outcome,                \* cleaner: "running", "returned" or "TypeError"
    cleaned,                \* cleaner: the list clean_patient_data returned
    round                   \* cleaner: 1 for the first cleaning, 2 when its output is cleaned again

vars == <<pc, patients, idx, patients_with_dosages, total_medication,
          df, outcome, cleaned, round>>

\* Longest input list explored.
MaxLen == 2

\* The Python value None.
None == [t |-> "none"]

\* d1 overlaid by d2: {**d1, **d2}.
Merge(d1, d2) ==
    [k \in (DOMAIN d1) \cup (DOMAIN d2) |-> IF k \in DOMAIN d2 THEN d2[k] ELSE d1[k]]

\* A dict without the keys outside ks.
Restrict(d, ks) == [k \in (DOMAIN d) \cap ks |-> d[k]]

RECURSIVE SeqsUpTo(_, _)
\* All lists of at most n items of S.
SeqsUpTo(S, n) ==
    IF n = 0 THEN {<<>>}
    ELSE LET shorter == SeqsUpTo(S, n - 1)
         IN  shorter \cup {Append(s, x) : s \in {t \in shorter : Len(t) = n - 1}, x \in S}

(***************************************************************************)
(* 2_med_dosage_calculator.py                                              *)
(***************************************************************************)

\* DOSAGE_FACTORS, in thousandths of mg per kg.
DOSAGE_FACTORS ==
    [m \in {"epinephrine", "amiodarone", "lorazepam", "fentanyl", "lisinopril",
            "metformin", "oseltamivir", "sumatriptan", "albuterol", "ibuprofen",
            "sertraline", "levothyroxine"} |->
        CASE m = "epinephrine"   -> 10
          [] m = "amiodarone"    -> 5000
          [] m = "lorazepam"     -> 50
          [] m = "fentanyl"      -> 1
          [] m = "lisinopril"    -> 500
          [] m = "metformin"     -> 10000
          [] m = "oseltamivir"   -> 2500
          [] m = "sumatriptan"   -> 1000
          [] m = "albuterol"     -> 100
          [] m = "ibuprofen"     -> 5000
          [] m = "sertraline"    -> 1500
          [] m = "levothyroxine" -> 20]

\* DOSAGE_FACTORS.get(medication, 1): a default that doses unknown medications.
FactorOfDefaultOne(medication) ==
    IF medication \in DOMAIN DOSAGE_FACTORS THEN DOSAGE_FACTORS[medication] ELSE 1

\* DOSAGE_FACTORS.get(medication, 0)
FactorOf(medication) ==
    IF medication \in DOMAIN DOSAGE_FACTORS THEN DOSAGE_FACTORS[medication] ELSE 0

\* LOADING_DOSE_MEDICATIONS: the three adjacent string literals have no commas
\* between them, so Python concatenates them into ONE list item.
LOADING_DOSE_MEDICATIONS == <<"amiodaronelorazepamfentanyl">>

\* x in list
InList(x, list) == \E i \in 1..Len(list) : list[i] = x

required_keys == {"weight", "medication", "is_first_dose"}

\* The warnings chain with a branch for one more medication.
WarningsAlsoLorazepam(medication) ==
    IF medication = "epinephrine" THEN <<"Monitor for arrhythmias">>
    ELSE IF medication = "amiodarone" THEN <<"Monitor for hypotension">>
    ELSE IF medication = "lorazepam" THEN <<"Monitor for sedation">>
    ELSE IF medication = "fentanyl" THEN <<"Monitor for respiratory depression">>
    ELSE <<>>

\* The if/elif chain that builds the warnings list.
WarningsFor(medication) ==
    IF medication = "epinephrine" THEN <<"Monitor for arrhythmias">>
    ELSE IF medication = "amiodarone" THEN <<"Monitor for hypotension">>
    ELSE IF medication = "fentanyl" THEN <<"Monitor for respiratory depression">>
    ELSE <<>>

\* base_dosage = weight + factor, the slip the source comments record as fixed.
BaseDosageAdded(weight, factor) == weight + factor

\* base_dosage = weight * factor
BaseDosage(weight, factor) == weight * factor

\* is_first_dose and medication in LOADING_DOSE_MEDICATIONS
LoadingDoseApplies(is_first_dose, medication) ==
    is_first_dose /\ InList(medication, LOADING_DOSE_MEDICATIONS)

\* calculate_dosage without the required-keys check: absent keys read as 0 / "" / False.
calculate_dosage_nocheck(patient) ==
    LET weight == IF "weight" \in DOMAIN patient THEN patient["weight"] ELSE 0
        medication == IF "medication" \in DOMAIN patient THEN patient["medication"] ELSE ""
        is_first_dose == IF "is_first_dose" \in DOMAIN patient
                         THEN patient["is_first_dose"] ELSE FALSE
        base_dosage == BaseDosage(weight, FactorOf(medication))
        loading == LoadingDoseApplies(is_first_dose, medication)
    IN  Merge(patient, [base_dosage |-> base_dosage,
                        loading_dose_applied |-> loading,
                        final_dosage |-> IF loading THEN base_dosage * 2 ELSE base_dosage,
                        warnings |-> WarningsFor(medication)])

\* calculate_dosage(patient): None for a record lacking a required key, else the
\* record with base_dosage, loading_dose_applied, final_dosage and warnings added.
calculate_dosage(patient) ==
    IF ~(required_keys \subseteq DOMAIN patient) THEN None
    ELSE
        LET weight == patient["weight"]
            medication == patient["medication"]
            is_first_dose == patient["is_first_dose"]
            factor == FactorOf(medication)
            base_dosage == BaseDosage(weight, factor)
            loading_dose_applied == LoadingDoseApplies(is_first_dose, medication)
            final_dosage == IF loading_dose_applied THEN base_dosage * 2 ELSE base_dosage
        IN  Merge(patient, [base_dosage |-> base_dosage,
                            loading_dose_applied |-> loading_dose_applied,
                            final_dosage |-> final_dosage,
                            warnings |-> WarningsFor(medication)])

\* Weights (kg) and medication names the inputs are drawn from.
Weights == {70, 12}
Medications == {"epinephrine", "amiodarone", "lorazepam", "fentanyl", "metformin",
                "unknown_drug", "amiodaronelorazepamfentanyl"}

\* Dosage requests: complete ones, and the same with any of the keys left out.
CompleteRequests ==
    {[weight |-> w, medication |-> m, is_first_dose |-> f] :
        w \in Weights, m \in Medications, f \in BOOLEAN}
DosageRequests == {Restrict(r, ks) : r \in CompleteRequests, ks \in SUBSET required_keys}

\* The cleaner's variables while the calculator runs.
CleanerIdle ==
    /\ df = [cols |-> {}, rows |-> <<>>]
    /\ outcome = "idle"
    /\ cleaned = <<>>
    /\ round = 0

\* main() of the calculator up to the call of calculate_all_dosages; lines 187-188.
InitDosage ==
    /\ pc = "loop"
    /\ patients \in SeqsUpTo(DosageRequests, MaxLen)
    /\ idx = 0
    /\ patients_with_dosages = <<>>
    /\ total_medication = 0
    /\ CleanerIdle

\* result.get('final_dose', 0): a mistyped key, so every record adds the default.
AddedToTotalWrongKey(result) ==
    IF "final_dose" \in DOMAIN result THEN result["final_dose"] ELSE 0

\* result.get('final_dosage', 0)
AddedToTotal(result) ==
    IF "final_dosage" \in DOMAIN result THEN result["final_dosage"] ELSE 0

\* One iteration of the for loop of calculate_all_dosages.
ProcessPatient ==
    /\ pc = "loop"
    /\ idx < Len(patients)
    /\ LET result == calculate_dosage(patients[idx + 1])
       IN  IF result # None
           THEN /\ patients_with_dosages' = Append(patients_with_dosages, result)
                /\ total_medication' = total_medication + AddedToTotal(result)
           ELSE UNCHANGED <<patients_with_dosages, total_medication>>
    /\ idx' = idx + 1
    /\ UNCHANGED <<pc, patients, df, outcome, cleaned, round>>

\* The loop is exhausted: return patients_with_dosages, total_medication.
ReturnDosages ==
    /\ pc = "loop"
    /\ idx = Len(patients)
    /\ pc' = "done"
    /\ UNCHANGED <<patients, idx, patients_with_dosages, total_medication,
                   df, outcome, cleaned, round>>

NextDosage == ProcessPatient \/ ReturnDosages

SpecDosage == InitDosage /\ [][NextDosage]_vars

(***************************************************************************)
(* 1_patient_data_cleaner.py                                               *)
(*                                                                         *)
(* A cell of the DataFrame is a tagged value: an int, a float (a fraction  *)
(* num/den), a str (a list of characters), NaN (a missing cell) or None.   *)
(***************************************************************************)

PyInt(n) == [t |-> "int", v |-> n]
PyFloat(n, d) == [t |-> "float", num |-> n, den |-> d]
PyStr(chars) == [t |-> "str", s |-> chars]
NaN == [t |-> "nan"]

required_columns == {"name", "age", "gender", "diagnosis"}

\* pd.DataFrame(patients): the columns are the union of the records' keys, and a
\* key a record lacks is a NaN cell of its row.
DataFrame(records) ==
    LET cols == UNION {DOMAIN records[i] : i \in 1..Len(records)}
    IN  [cols |-> cols,
         rows |-> [i \in 1..Len(records) |->
                      [c \in cols |-> IF c \in DOMAIN records[i] THEN records[i][c] ELSE NaN]]]

\* for col in required_columns: if col not in df.columns: df[col] = None
FillMissingColumns(frame) ==
    [cols |-> frame.cols \cup required_columns,
     rows |-> [i \in 1..Len(frame.rows) |->
                  [c \in frame.cols \cup required_columns |->
                      IF c \in frame.cols THEN frame.rows[i][c] ELSE None]]]

\* The positions 1..n of a list of rows, and the rows at chosen positions, in
\* order (boolean-mask indexing keeps the rows whose mask entry is True).
Positions(rows) == [i \in 1..Len(rows) |-> i]
RowsAt(rows, kept) == [k \in 1..Len(kept) |-> rows[kept[k]]]

\* Row i is the first of its value among the rows.
FirstOccurrence(rows, i) == \A j \in 1..(i - 1) : rows[j] # rows[i]

\* df.drop_duplicates(): the first row of every group of rows equal in all columns.
DropDuplicates(frame) ==
    [cols |-> frame.cols,
     rows |-> RowsAt(frame.rows,
                     SelectSeq(Positions(frame.rows),
                               LAMBDA i : FirstOccurrence(frame.rows, i)))]

\* A cell that is a Python str: comparing it with 18 raises TypeError.
IsText(v) == v.t = "str"

\* The mask keeps every row with a number in it, whatever the number.
AgeNotFiltered(v) == v.t \in {"int", "float"}

\* One cell of df['age'] >= 18: a missing cell compares False.
AgeAtLeast18(v) ==
    CASE v.t = "int" -> v.v >= 18
      [] v.t = "float" -> v.num >= 18 * v.den
      [] OTHER -> FALSE

AdultRow(rows, i) == AgeAtLeast18(rows[i]["age"])

\* df[df['age'] >= 18]
FilterAdults(frame) ==
    [cols |-> frame.cols,
     rows |-> RowsAt(frame.rows,
                     SelectSeq(Positions(frame.rows), LAMBDA i : AdultRow(frame.rows, i)))]

Digits == <<"0", "1", "2", "3", "4", "5", "6", "7", "8", "9">>

\* The value of a decimal digit character, -1 for any other character.
DigitValue(ch) ==
    IF \E d \in 1..Len(Digits) : Digits[d] = ch
    THEN (CHOOSE d \in 1..Len(Digits) : Digits[d] = ch) - 1
    ELSE -1

RECURSIVE ParseDigits(_, _)
\* The number a list of digit characters writes, read left to right from acc.
ParseDigits(chars, acc) ==
    IF chars = <<>> THEN acc
    ELSE ParseDigits(Tail(chars), acc * 10 + DigitValue(chars[1]))

\* pd.to_numeric(cell, errors='coerce'): numbers stay, digit text is parsed,
\* any other text and any missing cell become NaN.
ToNumeric(v) ==
    CASE v.t \in {"int", "float"} -> v
      [] v.t = "str" ->
            IF v.s # <<>> /\ \A k \in 1..Len(v.s) : DigitValue(v.s[k]) >= 0
            THEN PyInt(ParseDigits(v.s, 0))
            ELSE NaN
      [] OTHER -> NaN

\* .fillna(0).astype(int) of one cell: NaN becomes 0, a float is truncated.
FillZeroAsInt(v) ==
    CASE v.t = "int" -> v
      [] v.t = "float" -> PyInt(v.num \div v.den)
      [] OTHER -> PyInt(0)

\* df['age'] = pd.to_numeric(df['age'], errors='coerce').fillna(0).astype(int)
CoerceAge(frame) ==
    [cols |-> frame.cols,
     rows |-> [i \in 1..Len(frame.rows) |->
                  [frame.rows[i] EXCEPT !["age"] = FillZeroAsInt(ToNumeric(@))]]]

Lowercase == <<"a", "b", "c", "d", "e", "f", "g", "h", "i", "j", "k", "l", "m",
               "n", "o", "p", "q", "r", "s", "t", "u", "v", "w", "x", "y", "z">>
Uppercase == <<"A", "B", "C", "D", "E", "F", "G", "H", "I", "J", "K", "L", "M",
               "N", "O", "P", "Q", "R", "S", "T", "U", "V", "W", "X", "Y", "Z">>

IsCased(ch) == \E k \in 1..Len(Lowercase) : ch = Lowercase[k] \/ ch = Uppercase[k]
Upper(ch) ==
    IF \E k \in 1..Len(Lowercase) : ch = Lowercase[k]
    THEN Uppercase[CHOOSE k \in 1..Len(Lowercase) : ch = Lowercase[k]] ELSE ch
Lower(ch) ==
    IF \E k \in 1..Len(Uppercase) : ch = Uppercase[k]
    THEN Lowercase[CHOOSE k \in 1..Len(Uppercase) : ch = Uppercase[k]] ELSE ch

\* str.title(): a cased character is upper case after an uncased one (or at the
\* start) and lower case after a cased one.
Title(chars) ==
    [k \in 1..Len(chars) |->
        IF k > 1 /\ IsCased(chars[k - 1]) THEN Lower(chars[k]) ELSE Upper(chars[k])]

\* .fillna('').apply(lambda x: x.title()) of one cell.
TitleName(v) == IF v.t = "str" THEN PyStr(Title(v.s)) ELSE PyStr(<<>>)

\* df['name'] = df['name'].fillna('').apply(lambda x: x.title())
TitleNames(frame) ==
    [cols |-> frame.cols,
     rows |-> [i \in 1..Len(frame.rows) |->
                  [frame.rows[i] EXCEPT !["name"] = TitleName(@)]]]

\* Names, ages and the other fields the input records are drawn from.
Names == {PyStr(<<"j", "o", " ", "s">>), PyStr(<<"J", "o", " ", "S">>),
          PyStr(<<"j", "O", " ", "s">>), PyStr(<<"a", "l">>)}
Ages == {PyInt(15), PyInt(18), PyInt(32), PyFloat(37, 2),
         PyStr(<<"3", "2">>), PyStr(<<"t", "h", "i", "r", "t", "y">>)}
Male == PyStr(<<"m", "a", "l", "e">>)
Female == PyStr(<<"f", "e", "m", "a", "l", "e">>)
Flu == PyStr(<<"f", "l", "u">>)

\* Records with the four fields.
FullRecords ==
    {[name |-> n, age |-> a, gender |-> Male, diagnosis |-> Flu] : n \in Names, a \in Ages}

BaseRecord == [name |-> PyStr(<<"j", "o", " ", "s">>), age |-> PyInt(32),
               gender |-> Male, diagnosis |-> Flu]

\* Records with one field absent, another gender, or a key beyond the four.
OddRecords ==
    {Restrict(BaseRecord, required_columns \ {c}) : c \in required_columns}
    \cup {[BaseRecord EXCEPT !["gender"] = Female]}
    \cup {Merge(BaseRecord, [ward |-> PyStr(<<"b", "2">>)])}

PatientRecords == FullRecords \cup OddRecords

\* The calculator's variables while the cleaner runs.
DosageIdle ==
    /\ idx = 0
    /\ patients_with_dosages = <<>>
    /\ total_medication = 0

\* main() of the cleaner up to the call of clean_patient_data.
InitCleaner ==
    /\ pc = "frame"
    /\ patients \in SeqsUpTo(PatientRecords, MaxLen)
    /\ df = [cols |-> {}, rows |-> <<>>]
    /\ outcome = "running"
    /\ cleaned = <<>>
    /\ round = 1
    /\ DosageIdle

\* What no step of clean_patient_data touches.
CleanerFrame == UNCHANGED <<patients, outcome, cleaned, round, idx,
                            patients_with_dosages, total_medication>>

\* Line 79.
BuildFrame ==
    /\ pc = "frame"
    /\ pc' = "fill"
    /\ df' = DataFrame(patients)
    /\ CleanerFrame

\* Lines 83-86.
FillColumns ==
    /\ pc = "fill"
    /\ pc' = "dedup"
    /\ df' = FillMissingColumns(df)
    /\ CleanerFrame

\* Line 90.
DropDuplicateRows ==
    /\ pc = "dedup"
    /\ pc' = "filter"
    /\ df' = DropDuplicates(df)
    /\ CleanerFrame

\* Line 94 on a column of numbers and missing cells.
FilterByAge ==
    /\ pc = "filter"
    /\ \A i \in 1..Len(df.rows) : ~IsText(df.rows[i]["age"])
    /\ pc' = "coerce"
    /\ df' = FilterAdults(df)
    /\ CleanerFrame

\* Line 94 on a column holding text: the comparison with 18 raises TypeError,
\* which nothing in clean_patient_data or main catches.
FilterRaises ==
    /\ pc = "filter"
    /\ \E i \in 1..Len(df.rows) : IsText(df.rows[i]["age"])
    /\ pc' = "done"
    /\ outcome' = "TypeError"
    /\ UNCHANGED <<patients, df, cleaned, round, idx, patients_with_dosages,
                   total_medication>>

\* Line 98.
CoerceAges ==
    /\ pc = "coerce"
    /\ pc' = "title"
    /\ df' = CoerceAge(df)
    /\ CleanerFrame

\* Line 102.
CapitalizeNames ==
    /\ pc = "title"
    /\ pc' = "return"
    /\ df' = TitleNames(df)
    /\ CleanerFrame

\* Line 104: df.to_dict(orient='records').
ReturnRecords ==
    /\ pc = "return"
    /\ pc' = "done"
    /\ cleaned' = df.rows
    /\ outcome' = "returned"
    /\ UNCHANGED <<patients, df, round, idx, patients_with_dosages, total_medication>>

\* The returned list is cleaned a second time (the value main returns is kept
\* "for testing", and cleaning it again is the idempotence test).
CleanAgain ==
    /\ pc = "done"
    /\ outcome = "returned"
    /\ round = 1
    /\ pc' = "frame"
    /\ patients' = cleaned
    /\ df' = [cols |-> {}, rows |-> <<>>]
    /\ outcome' = "running"
    /\ cleaned' = <<>>
    /\ round' = 2
    /\ UNCHANGED <<idx, patients_with_dosages, total_medication>>

NextCleaner ==
    \/ BuildFrame
    \/ FillColumns
    \/ DropDuplicateRows
    \/ FilterByAge
    \/ FilterRaises
    \/ CoerceAges
    \/ CapitalizeNames
    \/ ReturnRecords
    \/ CleanAgain

SpecCleaner == InitCleaner /\ [][NextCleaner]_vars

(***************************************************************************)
(* Properties of the cleaner                                               *)
(***************************************************************************)

\* The age a raw cell is coerced to by line 98.
CoercedAge(v) == FillZeroAsInt(ToNumeric(v)).v

\* C2: age is coerced first and filtered afterwards, so the cleaner never ends
\* in an error, and it retains no more records than the input has records whose
\* coerced age is at least 18 (text that is no number and a missing age, coerced
\* to 0, are dropped).
C2_CoerceThenFilterNeverFails ==
    (pc = "done" /\ round = 1) =>
        /\ outcome = "returned"
        /\ Len(cleaned) <=
               Cardinality({i \in 1..Len(patients) :
                               /\ "age" \in DOMAIN patients[i]
                               /\ CoercedAge(patients[i]["age"]) >= 18})

\* C3: no two records of the returned list are equal in every field.
C3_NoTwoOutputRecordsEqual ==
    outcome = "returned" =>
        \A i, j \in 1..Len(cleaned) : i # j => cleaned[i] # cleaned[j]

\* C4: whenever clean_patient_data returns, every record of the returned list
\* has an age that is an int and is at least 18.
C4_OutputAgesAreIntsOfAdults ==
    outcome = "returned" =>
        \A i \in 1..Len(cleaned) :
            /\ cleaned[i]["age"].t = "int"
            /\ cleaned[i]["age"].v >= 18

\* A record of age 18.5 was returned with age 18, next to one that was dropped.
C4_Witness ==
    /\ outcome = "returned"
    /\ round = 1
    /\ Len(patients) = 2
    /\ \A i \in 1..2 : "age" \in DOMAIN patients[i]
    /\ patients[1]["age"] = PyFloat(37, 2)
    /\ patients[2]["age"] = PyInt(15)
    /\ Len(cleaned) = 1
    /\ cleaned[1]["age"] = PyInt(18)

\* C5: cleaning the list that clean_patient_data returned returns that same
\* list: the same records in the same order.
C5_CleaningIsIdempotent ==
    (pc = "done" /\ round = 2) =>
        /\ outcome = "returned"
        /\ cleaned = patients

\* C7: every returned record has exactly the keys name, age, gender, diagnosis.
C7_ExactlyTheFourFields ==
    outcome = "returned" =>
        \A i \in 1..Len(cleaned) : DOMAIN cleaned[i] = required_columns

(***************************************************************************)
(* Properties of the calculator                                            *)
(***************************************************************************)

\* The set of list positions of s.
Indices(s) == 1..Len(s)

HasRequiredKeys(p) == required_keys \subseteq DOMAIN p

RECURSIVE SumFinal(_)
\* Sum of final_dosage over a list of results.
SumFinal(results) ==
    IF results = <<>> THEN 0
    ELSE results[1]["final_dosage"] + SumFinal(Tail(results))

\* C1: every result has loading_dose_applied true exactly when is_first_dose is
\* true and the medication is amiodarone, lorazepam or fentanyl; a first-dose
\* amiodarone record of weight 70 has base_dosage 350, loading_dose_applied true
\* and final_dosage 700 (350000 and 700000 thousandths of a mg).
C1_LoadingDoseForTheThreeMedications ==
    \A i \in Indices(patients_with_dosages) :
        LET r == patients_with_dosages[i]
        IN  /\ r["loading_dose_applied"] =
                  (r["is_first_dose"]
                   /\ r["medication"] \in {"amiodarone", "lorazepam", "fentanyl"})
            /\ (r["weight"] = 70 /\ r["medication"] = "amiodarone" /\ r["is_first_dose"])
                  => /\ r["base_dosage"] = 350000
                     /\ r["loading_dose_applied"] = TRUE
                     /\ r["final_dosage"] = 700000

\* C6: when calculate_all_dosages returns, the whole input has been consumed,
\* no record lacking a required key is in the returned list or in the total, and
\* every record having all three keys has its result in the returned list.
C6_IncompleteRecordsSkipped ==
    pc = "done" =>
        LET complete == {i \in Indices(patients) : HasRequiredKeys(patients[i])}
            complete_results == [i \in complete |-> calculate_dosage(patients[i])]
            total_of_complete ==
                SumFinal(SelectSeq([i \in Indices(patients) |->
                                       IF i \in complete THEN complete_results[i]
                                       ELSE [final_dosage |-> 0, skipped |-> TRUE]],
                                   LAMBDA r : "skipped" \notin DOMAIN r))
        IN  /\ idx = Len(patients)
            /\ \A j \in Indices(patients_with_dosages) :
                   HasRequiredKeys(patients_with_dosages[j])
            /\ Len(patients_with_dosages) = Cardinality(complete)
            /\ \A i \in complete : \E j \in Indices(patients_with_dosages) :
                   Restrict(patients_with_dosages[j], required_keys) = patients[i]
            /\ total_medication = total_of_complete

\* The batch has returned after skipping a record that is followed by a complete one.
C6_Witness ==
    /\ pc = "done"
    /\ Len(patients) = 2
    /\ ~HasRequiredKeys(patients[1])
    /\ HasRequiredKeys(patients[2])
    /\ Len(patients_with_dosages) = 1

\* C8: a record whose medication is no key of the factor table gets a result
\* (it is appended, not skipped) with base_dosage 0, final_dosage 0 and no
\* warnings, whatever is_first_dose is; and only epinephrine, amiodarone and
\* fentanyl ever carry a warning.
C8_UnknownMedicationIsZeroDose ==
    /\ \A i \in Indices(patients_with_dosages) :
           LET r == patients_with_dosages[i]
           IN  /\ r["medication"] \notin DOMAIN DOSAGE_FACTORS
                      => /\ r["base_dosage"] = 0
                         /\ r["final_dosage"] = 0
                         /\ r["warnings"] = <<>>
               /\ r["warnings"] # <<>>
                      => r["medication"] \in {"epinephrine", "amiodarone", "fentanyl"}
    /\ (/\ idx > 0
        /\ HasRequiredKeys(patients[idx])
        /\ patients[idx]["medication"] \notin DOMAIN DOSAGE_FACTORS)
           => /\ patients_with_dosages # <<>>
              /\ Restrict(patients_with_dosages[Len(patients_with_dosages)], required_keys)
                     = patients[idx]

\* An unknown medication was dosed as a first dose and as a later dose.
C8_Witness ==
    /\ Len(patients_with_dosages) = 2
    /\ patients_with_dosages[1]["medication"] = "unknown_drug"
    /\ patients_with_dosages[1]["is_first_dose"]
    /\ patients_with_dosages[2]["medication"] = "unknown_drug"
    /\ ~patients_with_dosages[2]["is_first_dose"]

\* C9: in every result base_dosage is weight times the table factor of the
\* medication, and final_dosage is twice base_dosage when loading_dose_applied
\* is true and base_dosage otherwise.
C9_DosageFormula ==
    \A i \in Indices(patients_with_dosages) :
        LET r == patients_with_dosages[i]
            factor == IF r["medication"] \in DOMAIN DOSAGE_FACTORS
                      THEN DOSAGE_FACTORS[r["medication"]] ELSE 0
        IN  /\ r["base_dosage"] = r["weight"] * factor
            /\ r["loading_dose_applied"] => r["final_dosage"] = r["base_dosage"] * 2
            /\ ~r["loading_dose_applied"] => r["final_dosage"] = r["base_dosage"]

\* One result with the loading dose applied and one, lorazepam for 12 kg, without.
C9_Witness ==
    /\ Len(patients_with_dosages) = 2
    /\ patients_with_dosages[1]["loading_dose_applied"]
    /\ ~patients_with_dosages[2]["loading_dose_applied"]
    /\ patients_with_dosages[2]["medication"] = "lorazepam"
    /\ patients_with_dosages[2]["base_dosage"] = 600

\* C10: after any prefix of the input has been processed, total_medication is the
\* sum of final_dosage over the results appended so far, and those results are,
\* in input order, the records of the prefix that have all required keys.
C10_TotalIsSumOfResults ==
    /\ total_medication = SumFinal(patients_with_dosages)
    /\ [j \in Indices(patients_with_dosages) |->
            Restrict(patients_with_dosages[j], required_keys)]
         = SelectSeq(SubSeq(patients, 1, idx), HasRequiredKeys)

\* The batch returned one result and its total, one of the two records having been skipped.
C10_Witness ==
    /\ pc = "done"
    /\ Len(patients) = 2
    /\ Len(patients_with_dosages) = 1
    /\ total_medication = 350000

====
